---- MODULE Spec2Model ----
(***************************************************************************)
(* Urban Opportunity Mapper: the grid-based accessibility and opportunity  *)
(* scoring engine of src/analyze.py, with the demand-weighted re-scoring   *)
(* of src/population_data.py, the desert layers of src/visualize.py and    *)
(* src/app_v1.py, and the artifacts of data/processed that analyze.py,     *)
(* fix_boundaries.py and population_data.py write.                         *)
(*                                                                         *)
(* Spec follows one run of analyze_city step by step, then its enrichment  *)
(* and rendering.  StoreSpec interleaves whole runs of the three programs  *)
(* over one data/processed directory.  GridSpec builds the grids of given  *)
(* bounds and the sample grid of src/collect_data.py.  BatchSpec follows   *)
(* the batch driver analyze_all_business_types turn by turn.               *)
(*                                                                         *)
(* Numbers.  Latitudes and longitudes are integers in micro-degrees.       *)
(* Distances are integers in units of 0.01 km.  Every float the code       *)
(* derives by division (distance_km as a column, densities, sub-scores,    *)
(* scores) is an exact fraction <<n, d>> in lowest terms; numpy's inf is   *)
(* the fraction <<1, 0>>, which the cross-multiplied order places above    *)
(* every finite value, as IEEE does.                                       *)
(***************************************************************************)
EXTENDS Integers, Sequences, FiniteSets, TLC

VARIABLES pc, city, bounds, grid_size_km, places, grid, distances,
          walking_distance_km, accessibility, deserts, results,
          map_deserts, dashboard_deserts, pop_raster, enriched, input_df,
          files,
          business_types, batch_idx, results_summary, boundary_file,
          reprocess_error, grid_points, boundary_polygon

vars == <<pc, city, bounds, grid_size_km, places, grid, distances,
          walking_distance_km, accessibility, deserts, results,
          map_deserts, dashboard_deserts, pop_raster, enriched, input_df,
          files,
          business_types, batch_idx, results_summary, boundary_file,
          reprocess_error, grid_points, boundary_polygon>>

----------------------------------------------------------------------------
(* Bounds of the model *)

MaxPlaces == 2
MaxCrowd == 14
MaxSpanSteps == 2
MaxFiltered == 2
MaxGridSpan == 8

----------------------------------------------------------------------------
(* Fractions *)

RECURSIVE GCD(_, _)
GCD(a, b) == IF b = 0 THEN a ELSE GCD(b, a % b)

Abs(n) == IF n < 0 THEN -n ELSE n

Rat(n, d) ==
    IF d = 0 THEN <<1, 0>>
    ELSE LET g == GCD(Abs(n), Abs(d))
             s == IF d < 0 THEN -1 ELSE 1
         IN  <<(s * n) \div g, (s * d) \div g>>

Inf == <<1, 0>>
IsInf(a) == a[2] = 0
RInt(n) == <<n, 1>>

RLeq(a, b) == a[1] * b[2] <= b[1] * a[2]
RLt(a, b) == ~RLeq(b, a)
RAdd(a, b) == IF IsInf(a) \/ IsInf(b) THEN Inf
              ELSE Rat(a[1] * b[2] + b[1] * a[2], a[2] * b[2])
RSub(a, b) == Rat(a[1] * b[2] - b[1] * a[2], a[2] * b[2])
RMul(a, b) == IF IsInf(a) \/ IsInf(b) THEN Inf
              ELSE Rat(a[1] * b[1], a[2] * b[2])
RDiv(a, b) == IF IsInf(a) THEN Inf ELSE Rat(a[1] * b[2], a[2] * b[1])
RMin(a, b) == IF RLeq(a, b) THEN a ELSE b
RMax(a, b) == IF RLeq(a, b) THEN b ELSE a

----------------------------------------------------------------------------
(* Geodesic Distance Service and trigonometry *)

\* The integer square root, by bisection.
RECURSIVE ISqrtBetween(_, _, _)
ISqrtBetween(n, lo, hi) ==
    IF lo >= hi THEN lo
    ELSE LET mid == (lo + hi + 1) \div 2
         IN  IF mid * mid <= n THEN ISqrtBetween(n, mid, hi)
             ELSE ISqrtBetween(n, lo, mid - 1)

ISqrt(n) == ISqrtBetween(n, 0, IF n < 40000 THEN n ELSE 40000)

\* np.cos(np.radians(lat)) in thousandths, by Bhaskara's rational
\* approximation on tenths of a degree (exact at 0 and at 60 degrees).
CosMilli(lat) ==
    LET x == lat \div 100000
    IN  ((3240000 - 4 * x * x) * 100) \div ((3240000 + x * x) \div 10)

\* geodesic(a, b).kilometers in units of 0.01 km: the length of the
\* north-south and east-west offsets on a local plane, 111 km per degree.
geodesic(a, b) ==
    LET dlat == Abs(a[1] - b[1])
        dlng == Abs(a[2] - b[2])
        dy == (dlat * 111) \div 10000
        mid == (a[1] + b[1]) \div 2
        dx == (((dlng * 111) \div 1000) * CosMilli(mid)) \div 10000
    IN  ISqrt(dy * dy + dx * dx)

----------------------------------------------------------------------------
(* Inputs: configured regions, facility sets *)

Cities == {"equator", "milan"}

\* Region names a run may be asked for: the configured ones and one that
\* is not configured.
Regions == Cities \cup {"atlantis"}

\* The membership test without effect: every name taken for configured.
configured_any(c) == TRUE

\* city in CITY_BOUNDS
configured(c) == c \in Cities

\* South-west corner of each configured region, micro-degrees.
CityCorner(c) ==
    IF c = "milan" THEN [south |-> 45395000, west |-> 9065000]
    ELSE [south |-> 0, west |-> 0]

\* Extent of a region above its corner: multiples of about half a
\* kilometre, so that regions of one, two and three columns occur, and in
\* them cell centres more than 1 km apart; one or two rows.
Spans == {k * 4600 : k \in 0..MaxSpanSteps}
LatSpans == {0, 4600}

\* Facility positions relative to the corner, micro-degrees: 1.0 km, 1.5 km
\* and 4.0 km north of it, and 0.1 km north of it.
PlaceOffsets == {<<9010, 0>>, <<13514, 0>>, <<36037, 0>>}
NearOffset == <<901, 0>>

\* Facility sets: every short sequence of positions, and crowds of
\* facilities close to the corner.
CrowdSizes == {1, 4} \cup (12..MaxCrowd)
PlaceSeqs == (UNION {[1..n -> PlaceOffsets] : n \in 0..MaxPlaces})
             \cup {[i \in 1..n |-> NearOffset] : n \in CrowdSizes}

\* The facility table read by load_data: one row per facility.
PlacesOf(c, offs) ==
    [i \in 1..Len(offs) |->
        [place_id |-> i,
         lat |-> CityCorner(c).south + offs[i][1],
         lng |-> CityCorner(c).west + offs[i][2]]]

GridSizes == {50, 100}
WalkingDistances == {100, 200}

----------------------------------------------------------------------------
(* Grid Builder *)

lat_step_of(g) == (g * 10000) \div 111
lng_step_of(b, g) ==
    LET center_lat == (b.north + b.south) \div 2
    IN  (g * 10000000) \div (111 * CosMilli(center_lat))

\* The longitude loop exclusive at its eastern end.
RECURSIVE LngLoopExclusive(_, _, _, _, _, _)
LngLoopExclusive(b, lat, lng, cell_id, lat_step, lng_step) ==
    IF lng < b.east
    THEN <<[cell_id |-> cell_id,
            center_lat |-> lat,
            center_lng |-> lng,
            lat_min |-> lat - lat_step \div 2,
            lat_max |-> lat + lat_step \div 2,
            lng_min |-> lng - lng_step \div 2,
            lng_max |-> lng + lng_step \div 2]>>
         \o LngLoopExclusive(b, lat, lng + lng_step, cell_id + 1,
                             lat_step, lng_step)
    ELSE <<>>

RECURSIVE LngLoop(_, _, _, _, _, _)
LngLoop(b, lat, lng, cell_id, lat_step, lng_step) ==
    IF lng <= b.east
    THEN <<[cell_id |-> cell_id,
            center_lat |-> lat,
            center_lng |-> lng,
            lat_min |-> lat - lat_step \div 2,
            lat_max |-> lat + lat_step \div 2,
            lng_min |-> lng - lng_step \div 2,
            lng_max |-> lng + lng_step \div 2]>>
         \o LngLoop(b, lat, lng + lng_step, cell_id + 1, lat_step, lng_step)
    ELSE <<>>

RECURSIVE LatLoop(_, _, _, _, _)
LatLoop(b, lat, cell_id, lat_step, lng_step) ==
    IF lat <= b.north
    THEN LET row == LngLoop(b, lat, b.west, cell_id, lat_step, lng_step)
         IN  row \o LatLoop(b, lat + lat_step, cell_id + Len(row),
                            lat_step, lng_step)
    ELSE <<>>

\* The grid with the loops exchanged: longitudes outer, latitudes inner.
create_analysis_grid_lng_outer(b, g) ==
    LET t == [south |-> b.west, north |-> b.east,
              west |-> b.south, east |-> b.north]
        cells == LatLoop(t, t.south, 0, lng_step_of(b, g), lat_step_of(g))
    IN  [i \in 1..Len(cells) |->
            [cell_id |-> cells[i].cell_id,
             center_lat |-> cells[i].center_lng,
             center_lng |-> cells[i].center_lat,
             lat_min |-> cells[i].lng_min,
             lat_max |-> cells[i].lng_max,
             lng_min |-> cells[i].lat_min,
             lng_max |-> cells[i].lat_max]]

create_analysis_grid(b, g) ==
    LatLoop(b, b.south, 0, lat_step_of(g), lng_step_of(b, g))

----------------------------------------------------------------------------
(* Distance Matrix Builder *)

\* A table built from a list of row dictionaries has the rows' columns, and
\* no columns at all when the list is empty.
DataFrame(rows) == [cols |-> Len(rows) > 0, rows |-> rows]

\* The inner loop stopping after the first facility.
PlaceLoopFirstOnly(cell, ps, j) ==
    IF j > Len(ps) THEN <<>>
    ELSE <<[cell_id |-> cell.cell_id,
            place_id |-> ps[j].place_id,
            distance_km |-> geodesic(<<cell.center_lat, cell.center_lng>>,
                                     <<ps[j].lat, ps[j].lng>>)]>>

RECURSIVE PlaceLoop(_, _, _)
PlaceLoop(cell, ps, j) ==
    IF j > Len(ps) THEN <<>>
    ELSE <<[cell_id |-> cell.cell_id,
            place_id |-> ps[j].place_id,
            distance_km |-> geodesic(<<cell.center_lat, cell.center_lng>>,
                                     <<ps[j].lat, ps[j].lng>>)]>>
         \o PlaceLoop(cell, ps, j + 1)

RECURSIVE CellLoop(_, _, _)
CellLoop(g, ps, i) ==
    IF i > Len(g) THEN <<>>
    ELSE PlaceLoop(g[i], ps, 1) \o CellLoop(g, ps, i + 1)

calculate_distance_matrix(g, ps) == DataFrame(CellLoop(g, ps, 1))

----------------------------------------------------------------------------
(* Accessibility Analyzer *)

\* distances[distances["cell_id"] == cell_id]
cell_rows(rows, cell_id) == SelectSeq(rows, LAMBDA r : r.cell_id = cell_id)

\* sort_values("distance_km"): ascending by distance.  Only distance_km is
\* read from the sorted rows, so the order among equal distances is not
\* observable.
RECURSIVE insert_sorted(_, _)
insert_sorted(r, sorted) ==
    IF sorted = <<>> THEN <<r>>
    ELSE IF r.distance_km < Head(sorted).distance_km THEN <<r>> \o sorted
    ELSE <<Head(sorted)>> \o insert_sorted(r, Tail(sorted))

RECURSIVE sort_values(_)
sort_values(rows) ==
    IF rows = <<>> THEN <<>>
    ELSE insert_sorted(Head(rows), sort_values(Tail(rows)))

\* The count with the limit exclusive.
count_within_strict(rows, limit) ==
    Len(SelectSeq(rows, LAMBDA r : r.distance_km < limit))

count_within(rows, limit) ==
    Len(SelectSeq(rows, LAMBDA r : r.distance_km <= limit))

RECURSIVE sum_distance(_)
sum_distance(rows) ==
    IF rows = <<>> THEN 0 ELSE Head(rows).distance_km + sum_distance(Tail(rows))

head(rows, n) == SubSeq(rows, 1, IF Len(rows) < n THEN Len(rows) ELSE n)

\* np.pi as the fraction 355/113.
PiNum == 355
PiDen == 113

nearest_distance_of(cell_distances) ==
    IF Len(cell_distances) > 0
    THEN Rat(cell_distances[1].distance_km, 100) ELSE Inf

avg_distance_top3_of(cell_distances) ==
    LET top_3 == head(cell_distances, 3)
    IN  IF Len(top_3) > 0
        THEN Rat(sum_distance(top_3), 100 * Len(top_3)) ELSE Inf

\* The analyzer with the density counted within the walking distance.
analyze_cell_density_by_walking(cell, rows, walking) ==
    LET cell_distances == sort_values(cell_rows(rows, cell.cell_id))
        within_walking == count_within(cell_distances, walking)
    IN  [cell_id |-> cell.cell_id,
         services_within_walking |-> within_walking,
         nearest_distance_km |-> nearest_distance_of(cell_distances),
         avg_distance_top3_km |-> avg_distance_top3_of(cell_distances),
         density_per_km2 |-> Rat(within_walking * PiDen, PiNum),
         center_lat |-> cell.center_lat,
         center_lng |-> cell.center_lng]

analyze_cell(cell, rows, walking) ==
    LET cell_distances == sort_values(cell_rows(rows, cell.cell_id))
        within_walking == count_within(cell_distances, walking)
        nearest_distance == nearest_distance_of(cell_distances)
        avg_distance_top3 == avg_distance_top3_of(cell_distances)
        services_1km == count_within(cell_distances, 100)
        density_per_km2 == Rat(services_1km * PiDen, PiNum)
    IN  [cell_id |-> cell.cell_id,
         services_within_walking |-> within_walking,
         nearest_distance_km |-> nearest_distance,
         avg_distance_top3_km |-> avg_distance_top3,
         density_per_km2 |-> density_per_km2,
         center_lat |-> cell.center_lat,
         center_lng |-> cell.center_lng]

analyze_accessibility(g, d, walking) ==
    [i \in 1..Len(g) |-> analyze_cell(g[i], d.rows, walking)]

----------------------------------------------------------------------------
(* Desert Classifier: analyze.py, visualize.py and app_v1.py *)

\* The classifier with the distance rule alone.
identify_service_deserts_distance_only(accessibility_df, threshold_distance_km) ==
    SelectSeq(accessibility_df,
              LAMBDA r : RLt(Rat(threshold_distance_km, 100),
                             r.nearest_distance_km))

\* The classifier with the distance threshold inclusive.
identify_service_deserts_inclusive(accessibility_df, threshold_distance_km) ==
    SelectSeq(accessibility_df,
              LAMBDA r : \/ RLeq(Rat(threshold_distance_km, 100),
                                 r.nearest_distance_km)
                         \/ r.services_within_walking < 2)

identify_service_deserts(accessibility_df, threshold_distance_km) ==
    SelectSeq(accessibility_df,
              LAMBDA r : \/ RLt(Rat(threshold_distance_km, 100),
                                r.nearest_distance_km)
                         \/ r.services_within_walking < 2)

visualize_deserts(analysis_df) ==
    SelectSeq(analysis_df,
              LAMBDA r : \/ RLt(Rat(15, 10), r.nearest_distance_km)
                         \/ r.services_within_walking < 2)

app_is_desert(cell) ==
    \/ RLt(Rat(15, 10), cell.nearest_distance_km)
    \/ cell.services_within_walking < 2

app_deserts(analysis_df) ==
    SelectSeq(analysis_df,
              LAMBDA r : \/ RLt(Rat(15, 10), r.nearest_distance_km)
                         \/ r.services_within_walking < 2)

----------------------------------------------------------------------------
(* Opportunity Scorer, supply-only policy *)

\* The first row's value taken for the maximum of the column.
max_of_first(df, col) == df[1][col]

RECURSIVE max_of(_, _)
max_of(df, col) ==
    IF Len(df) = 1 THEN df[1][col]
    ELSE RMax(df[1][col], max_of(Tail(df), col))

\* The competition gap of a set without competitors, for every set.
competition_gap_unrivalled(density, max_density) == RInt(1)

competition_gap_of(density, max_density) ==
    IF RLt(RInt(0), max_density)
    THEN RSub(RInt(1), RDiv(density, max_density))
    ELSE RInt(1)

\* The accessibility gap without the 3 km cap.
accessibility_gap_uncapped(nearest) == RDiv(nearest, RInt(3))

accessibility_gap_of(nearest) == RDiv(RMin(nearest, RInt(3)), RInt(3))

\* The viability without its floor at 0.
viability_unfloored(x) ==
    IF 1 <= x /\ x <= 3 THEN RInt(1)
    ELSE IF x = 0 THEN Rat(1, 2)
    ELSE RSub(RInt(1), Rat(x - 3, 10))

viability_of(x) ==
    IF 1 <= x /\ x <= 3 THEN RInt(1)
    ELSE IF x = 0 THEN Rat(1, 2)
    ELSE RMax(RInt(0), RSub(RInt(1), Rat(x - 3, 10)))

supply_score(competition_gap, accessibility_gap, viability) ==
    RMul(RAdd(RAdd(RMul(Rat(40, 100), competition_gap),
                   RMul(Rat(40, 100), accessibility_gap)),
              RMul(Rat(20, 100), viability)),
         RInt(10))

calculate_opportunity_scores(accessibility_df) ==
    LET max_density == max_of(accessibility_df, "density_per_km2")
    IN  [i \in 1..Len(accessibility_df) |->
            LET r == accessibility_df[i]
                cg == competition_gap_of(r.density_per_km2, max_density)
                ag == accessibility_gap_of(r.nearest_distance_km)
                v == viability_of(r.services_within_walking)
            IN  [cell_id |-> r.cell_id,
                 services_within_walking |-> r.services_within_walking,
                 nearest_distance_km |-> r.nearest_distance_km,
                 avg_distance_top3_km |-> r.avg_distance_top3_km,
                 density_per_km2 |-> r.density_per_km2,
                 center_lat |-> r.center_lat,
                 center_lng |-> r.center_lng,
                 competition_gap |-> cg,
                 accessibility_gap |-> ag,
                 viability |-> v,
                 opportunity_score |-> supply_score(cg, ag, v)]]

----------------------------------------------------------------------------
(* Population Enricher and Opportunity Scorer, demand-weighted policy *)

\* Population rasters: one-kilometre pixels, the first pixel holding the
\* region's corner; the raster ends part-way up the region, so that cell
\* centres north of it are outside its coverage.  -99999 is the no-data value.
PixelValues == {0, 99, 100, -99999}

RasterOf(c, v) ==
    [found |-> TRUE, opens |-> TRUE,
     north |-> CityCorner(c).south + 3000,
     west |-> CityCorner(c).west - 100,
     pixel |-> 8333, height |-> 1, width |-> 1, value |-> v]

\* No file at any of the paths that check_for_existing_population_data
\* tries.
NoRaster == [found |-> FALSE, opens |-> FALSE, north |-> 0, west |-> 0,
             pixel |-> 1, height |-> 0, width |-> 0, value |-> 0]

\* A file at one of the paths that rasterio.open cannot load.
UnreadableRaster(c) == [RasterOf(c, 100) EXCEPT !.opens = FALSE]

Rasters(c) ==
    {NoRaster, UnreadableRaster(c)} \cup {RasterOf(c, v) : v \in PixelValues}

\* Any exception under rasterio.open, a failure to open included, is caught
\* and answered with 0.
get_population_for_point(lat, lng, raster) ==
    LET row == (raster.north - lat) \div raster.pixel
        col == (lng - raster.west) \div raster.pixel
    IN  IF ~raster.opens THEN 0
        ELSE IF row < 0 \/ col < 0 \/ row >= raster.height
                \/ col >= raster.width
        THEN 0
        ELSE IF raster.value < 0 THEN 0 ELSE raster.value

\* The neighbourhood sum without the 1 km radius: every cell of the set.
RECURSIVE nearby_pop_unbounded(_, _, _)
nearby_pop_unbounded(cell, df, j) ==
    IF j > Len(df) THEN 0
    ELSE df[j].population + nearby_pop_unbounded(cell, df, j + 1)

RECURSIVE nearby_pop(_, _, _)
nearby_pop(cell, df, j) ==
    IF j > Len(df) THEN 0
    ELSE (IF geodesic(<<cell.center_lat, cell.center_lng>>,
                      <<df[j].center_lat, df[j].center_lng>>) <= 100
          THEN df[j].population ELSE 0)
         + nearby_pop(cell, df, j + 1)

RECURSIVE max_int(_, _)
max_int(df, col) ==
    IF Len(df) = 1 THEN df[1][col]
    ELSE LET m == max_int(Tail(df), col)
         IN  IF df[1][col] >= m THEN df[1][col] ELSE m

\* The demand score without the division by the maximum.
demand_score_unscaled(population_1km, max_pop) ==
    IF population_1km < 100 THEN RInt(0)
    ELSE IF max_pop > 0 THEN RInt(1) ELSE RInt(0)

demand_score_of(population_1km, max_pop) ==
    IF population_1km < 100 THEN RInt(0)
    ELSE IF max_pop > 0 THEN Rat(population_1km, max_pop) ELSE RInt(0)

\* The demand-weighted sum with the supply-only weights left in place.
demand_weighted_score_old_weights(cg, ag, ds, v) ==
    RMul(RAdd(RAdd(RAdd(RMul(Rat(40, 100), cg), RMul(Rat(40, 100), ag)),
                   RMul(Rat(30, 100), ds)),
              RMul(Rat(20, 100), v)),
         RInt(10))

demand_weighted_score(cg, ag, ds, v) ==
    RMul(RAdd(RAdd(RAdd(RMul(Rat(30, 100), cg), RMul(Rat(30, 100), ag)),
                   RMul(Rat(30, 100), ds)),
              RMul(Rat(10, 100), v)),
         RInt(10))

\* The score without the population floor.
floor_score_absent(population_1km, score) == score

floor_score(population_1km, score) ==
    IF population_1km < 100 THEN RInt(0) ELSE score

\* The re-scoring that copies the score column after it has been recomputed.
recalculate_opportunity_copy_after(df) ==
    LET max_pop == max_int(df, "population_1km")
    IN  [i \in 1..Len(df) |->
            LET r == df[i]
                ds == demand_score_of(r.population_1km, max_pop)
                new == floor_score(r.population_1km,
                                   demand_weighted_score(r.competition_gap,
                                                         r.accessibility_gap,
                                                         ds, r.viability))
            IN  [demand_score |-> ds,
                 opportunity_score_original |-> new,
                 opportunity_score |-> new] @@ r]

recalculate_opportunity_with_population(df) ==
    LET max_pop == max_int(df, "population_1km")
    IN  [i \in 1..Len(df) |->
            LET r == df[i]
                ds == demand_score_of(r.population_1km, max_pop)
            IN  [cell_id |-> r.cell_id,
                 services_within_walking |-> r.services_within_walking,
                 nearest_distance_km |-> r.nearest_distance_km,
                 avg_distance_top3_km |-> r.avg_distance_top3_km,
                 density_per_km2 |-> r.density_per_km2,
                 center_lat |-> r.center_lat,
                 center_lng |-> r.center_lng,
                 competition_gap |-> r.competition_gap,
                 accessibility_gap |-> r.accessibility_gap,
                 viability |-> r.viability,
                 population |-> r.population,
                 population_1km |-> r.population_1km,
                 demand_score |-> ds,
                 opportunity_score_original |-> r.opportunity_score,
                 opportunity_score |->
                     floor_score(r.population_1km,
                                 demand_weighted_score(r.competition_gap,
                                                       r.accessibility_gap,
                                                       ds, r.viability))]]

with_population(df, raster) ==
    LET pops == [i \in 1..Len(df) |->
                    [center_lat |-> df[i].center_lat,
                     center_lng |-> df[i].center_lng,
                     population |->
                         get_population_for_point(df[i].center_lat,
                                                  df[i].center_lng, raster)]]
    IN  [i \in 1..Len(df) |->
            [cell_id |-> df[i].cell_id,
             services_within_walking |-> df[i].services_within_walking,
             nearest_distance_km |-> df[i].nearest_distance_km,
             avg_distance_top3_km |-> df[i].avg_distance_top3_km,
             density_per_km2 |-> df[i].density_per_km2,
             center_lat |-> df[i].center_lat,
             center_lng |-> df[i].center_lng,
             competition_gap |-> df[i].competition_gap,
             accessibility_gap |-> df[i].accessibility_gap,
             viability |-> df[i].viability,
             opportunity_score |-> df[i].opportunity_score,
             population |-> pops[i].population,
             population_1km |-> nearby_pop(pops[i], pops, 1)]]

add_population_to_analysis(df, raster) ==
    recalculate_opportunity_with_population(with_population(df, raster))

----------------------------------------------------------------------------
(* Artifacts of data/processed *)

\* An artifact name is the sequence of the tokens that the underscores of
\* the file name separate, without the directory and the .csv extension:
\* milan_pharmacy_analysis_20240101.csv is
\* <<"milan", "pharmacy", "analysis", "20240101">>.  The store maps the
\* names of the files that exist to the tables they hold; to_csv followed by
\* read_csv gives the table back.
NoFiles == [n \in {} |-> <<>>]

to_csv(fs, name, frame) ==
    [n \in DOMAIN fs \cup {name} |-> IF n = name THEN frame ELSE fs[n]]

BusinessType == "pharmacy"
Today == "20240101"

\* f"data/processed/{city}_{business_type}_analysis_{date}.csv"
analysis_filename(c, business_type, date) ==
    <<c, business_type, "analysis", date>>

save_analysis(fs, frame, c, business_type) ==
    to_csv(fs, analysis_filename(c, business_type, Today), frame)

\* glob(f'data/processed/{city}_*_analysis_*.csv'): "_analysis_" with
\* something before it after "{city}_" and something after it.
glob_analysis(fs, c) ==
    {n \in DOMAIN fs :
        /\ n[1] = c
        /\ \E q \in 3..(Len(n) - 1) : n[q] = "analysis"}

\* glob(f'data/processed/{city}_*_analysis_filtered_*.csv')
glob_analysis_filtered(fs, c) ==
    {n \in DOMAIN fs :
        /\ n[1] = c
        /\ \E q \in 3..(Len(n) - 2) :
              n[q] = "analysis" /\ n[q + 1] = "filtered"}

\* The check of the name left out: no file counts as enriched.
has_enriched_never(n) == FALSE

\* '_enriched' in filepath
has_enriched(n) == \E q \in 2..Len(n) : n[q] = "enriched"

\* The target name equal to the source name.
enriched_filepath_in_place(n) == n

\* filepath.replace('.csv', '_enriched.csv')
enriched_filepath(n) == Append(n, "enriched")

\* The files the enricher processes: the filtered analyses if there are
\* any, else the analyses that are not enriched; enriched ones are skipped.
files_to_enrich(fs, c) ==
    LET filtered == glob_analysis_filtered(fs, c)
        found == IF filtered # {} THEN filtered
                 ELSE {n \in glob_analysis(fs, c) : ~has_enriched(n)}
    IN  {n \in found : ~has_enriched(n)}

\* The store after the enricher's loop over the files.
add_population_files(fs, c, raster) ==
    LET todo == files_to_enrich(fs, c)
        new == {enriched_filepath(n) : n \in todo}
    IN  [n \in DOMAIN fs \cup new |->
            IF n \in new
            THEN LET src == CHOOSE t \in todo : enriched_filepath(t) = n
                 IN  add_population_to_analysis(fs[src], raster)
            ELSE fs[n]]

\* The city boundary, a polygon: here the box that holds the region's
\* cells less than 1 km east of its corner.
Boundary(c) ==
    [south |-> CityCorner(c).south - 100, north |-> CityCorner(c).south + 10000,
     west |-> CityCorner(c).west - 100, east |-> CityCorner(c).west + 9000]

\* A small polygon apart from Boundary(c), around the point 1 km east of
\* the corner, and a polygon that holds no cell of the region.
Exclave(c) ==
    [south |-> CityCorner(c).south - 100, north |-> CityCorner(c).south + 100,
     west |-> CityCorner(c).west + 8950, east |-> CityCorner(c).west + 9050]
Elsewhere(c) ==
    [south |-> CityCorner(c).south + 50000, north |-> CityCorner(c).south + 60000,
     west |-> CityCorner(c).west + 50000, east |-> CityCorner(c).west + 60000]

\* A GeoJSON geometry: its type and its member polygons.  NoGeometry stands
\* for the answer without features, and for the boundary file that does
\* not exist.
NoGeometry == [type |-> "none", polys |-> <<>>]
PolygonOf(p) == [type |-> "Polygon", polys |-> <<p>>]
MultiPolygonOf(ps) == [type |-> "MultiPolygon", polys |-> ps]

\* What the boundary service answers for a city: nothing, a polygon, a
\* multi-polygon whose first member is the smaller one, or a polygon that
\* lies elsewhere.
BoundaryAnswers(c) ==
    {NoGeometry, PolygonOf(Boundary(c)),
     MultiPolygonOf(<<Exclave(c), Boundary(c)>>), PolygonOf(Elsewhere(c))}

area(p) == (p.north - p.south) * (p.east - p.west)

\* polygon.contains(Point(lng, lat)): the interior of the polygon.
polygon_contains(p, lat, lng) ==
    /\ p.south < lat
    /\ lat < p.north
    /\ p.west < lng
    /\ lng < p.east

\* shape(boundary_geom).contains(point): a multi-polygon contains the
\* points that one of its members contains.
shape_contains(geom, lat, lng) ==
    \E k \in 1..Len(geom.polys) : polygon_contains(geom.polys[k], lat, lng)

\* max(multi.geoms, key=lambda p: p.area)
largest_member(ps) ==
    ps[CHOOSE k \in 1..Len(ps) :
          /\ \A j \in 1..Len(ps) : area(ps[j]) <= area(ps[k])
          /\ \A j \in 1..(k - 1) : area(ps[j]) < area(ps[k])]

\* get_osm_boundary of collect_data.py: None when the service gives
\* nothing, the polygon, or the largest member of a multi-polygon.
get_osm_boundary(answer) ==
    IF answer.type = "Polygon" THEN answer
    ELSE IF answer.type = "MultiPolygon"
    THEN PolygonOf(largest_member(answer.polys))
    ELSE NoGeometry

\* load_city_boundary: the geometry of the boundary file if there is one,
\* else what get_city_boundary_geojson fetches, features[0].geometry as it
\* is; NoGeometry when that raises ValueError.
load_city_boundary(cache, answer) ==
    IF cache # NoGeometry THEN cache ELSE answer

Returned(value) == [raised |-> "none", value |-> value]
Raised(exception) == [raised |-> exception, value |-> <<>>]

\* The rows of analysis_df[inside_city].
inside_city(analysis_df, boundary_geom) ==
    SelectSeq(analysis_df,
              LAMBDA r : shape_contains(boundary_geom,
                                        r.center_lat, r.center_lng))

\* filter_analysis_to_city_boundary for the geometry load_city_boundary
\* gave.  Without a geometry the ValueError of the fetch passes through;
\* for a table without rows the percentage of the report divides by zero.
filter_analysis_to_city_boundary(analysis_df, boundary_geom) ==
    IF boundary_geom = NoGeometry THEN Raised("ValueError")
    ELSE IF Len(analysis_df) = 0 THEN Raised("ZeroDivisionError")
    ELSE Returned(inside_city(analysis_df, boundary_geom))

\* filepath.replace('_analysis_', '_analysis_filtered_'): every token
\* "analysis" between two underscores gets "filtered" after it; the
\* occurrences str.replace finds do not overlap.
RECURSIVE replace_analysis(_, _)
replace_analysis(n, q) ==
    IF q > Len(n) THEN <<>>
    ELSE IF n[q] = "analysis" /\ 1 < q /\ q < Len(n)
    THEN <<"analysis", "filtered", n[q + 1]>> \o replace_analysis(n, q + 2)
    ELSE <<n[q]>> \o replace_analysis(n, q + 1)

filtered_filepath(n) == replace_analysis(n, 1)

\* One turn of the loop of reprocess_all_analyses: the store it leaves and
\* the exception it raises, if any.
reprocess_file(fs, n, boundary_geom) ==
    LET filtered_df == filter_analysis_to_city_boundary(fs[n], boundary_geom)
    IN  IF filtered_df.raised = "none"
        THEN [files |-> to_csv(fs, filtered_filepath(n), filtered_df.value),
              raised |-> "none"]
        ELSE [files |-> fs, raised |-> filtered_df.raised]

\* The outcomes of the loop: glob returns the matching files in an order
\* that is not specified, a file written in one turn can be the file read
\* in a later one, and an exception ends the loop.
RECURSIVE reprocess_outcomes(_, _, _)
reprocess_outcomes(fs, todo, boundary_geom) ==
    IF todo = {} THEN {[files |-> fs, raised |-> "none"]}
    ELSE UNION {LET turn == reprocess_file(fs, n, boundary_geom)
                IN  IF turn.raised = "none"
                    THEN reprocess_outcomes(turn.files, todo \ {n},
                                            boundary_geom)
                    ELSE {turn} :
                   n \in todo}

----------------------------------------------------------------------------
(* The run *)

NoBounds == [north |-> 0, south |-> 0, east |-> 0, west |-> 0]
NoFrame == [cols |-> FALSE, rows |-> <<>>]
NoLayer == [of |-> "none", cells |-> <<>>, markers |-> <<>>]

Init ==
    /\ pc = "start"
    /\ city = "none"
    /\ bounds = NoBounds
    /\ grid_size_km = 0
    /\ places = <<>>
    /\ grid = <<>>
    /\ distances = NoFrame
    /\ walking_distance_km = 0
    /\ accessibility = <<>>
    /\ deserts = <<>>
    /\ results = <<>>
    /\ map_deserts = NoLayer
    /\ dashboard_deserts = NoLayer
    /\ pop_raster = NoRaster
    /\ enriched = <<>>
    /\ input_df = <<>>
    /\ files = NoFiles
    /\ business_types = <<>>
    /\ batch_idx = 0
    /\ results_summary = <<>>
    /\ boundary_file = NoGeometry
    /\ reprocess_error = "none"
    /\ grid_points = <<>>
    /\ boundary_polygon = NoGeometry

\* analyze_city raises ValueError for a region that is not configured,
\* before it does anything else.
RejectRegion(c) ==
    /\ pc = "start"
    /\ ~configured(c)
    /\ city' = c
    /\ pc' = "value_error"
    /\ UNCHANGED <<bounds, grid_size_km, places, grid, distances,
                   walking_distance_km, accessibility, deserts, results,
                   map_deserts, dashboard_deserts, pop_raster, enriched,
                   input_df, files>>
    /\ UNCHANGED <<business_types, batch_idx, results_summary,
                   boundary_file, reprocess_error, grid_points,
                   boundary_polygon>>

\* load_data: the facility table of one city and category.
LoadData(c, offs) ==
    /\ pc = "start"
    /\ configured(c)
    /\ city' = c
    /\ places' = PlacesOf(c, offs)
    /\ pc' = "loaded"
    /\ UNCHANGED <<bounds, grid_size_km, grid, distances, walking_distance_km,
                   accessibility, deserts, results, map_deserts,
                   dashboard_deserts, pop_raster, enriched,
                   input_df, files>>
    /\ UNCHANGED <<business_types, batch_idx, results_summary,
                   boundary_file, reprocess_error, grid_points,
                   boundary_polygon>>

CreateAnalysisGrid(dlat, dlng, g) ==
    /\ pc = "loaded"
    /\ LET b == [south |-> CityCorner(city).south,
                 north |-> CityCorner(city).south + dlat,
                 west |-> CityCorner(city).west,
                 east |-> CityCorner(city).west + dlng]
       IN  /\ bounds' = b
           /\ grid' = create_analysis_grid(b, g)
    /\ grid_size_km' = g
    /\ pc' = "grid"
    /\ UNCHANGED <<city, places, distances, walking_distance_km,
                   accessibility, deserts, results, map_deserts,
                   dashboard_deserts, pop_raster, enriched,
                   input_df, files>>
    /\ UNCHANGED <<business_types, batch_idx, results_summary,
                   boundary_file, reprocess_error, grid_points,
                   boundary_polygon>>

CalculateDistanceMatrix ==
    /\ pc = "grid"
    /\ distances' = calculate_distance_matrix(grid, places)
    /\ pc' = "dist"
    /\ UNCHANGED <<city, bounds, grid_size_km, places, grid,
                   walking_distance_km, accessibility, deserts, results,
                   map_deserts, dashboard_deserts, pop_raster, enriched,
                   input_df, files>>
    /\ UNCHANGED <<business_types, batch_idx, results_summary,
                   boundary_file, reprocess_error, grid_points,
                   boundary_polygon>>

\* analyze_accessibility is also given distance tables that
\* calculate_distance_matrix did not build for this grid: a table that has
\* its columns and holds the rows of the first k cells only (of none, or of
\* the first cell).
GivenDistances(k) ==
    /\ pc = "grid"
    /\ k < Len(grid)
    /\ distances' =
          [cols |-> TRUE,
           rows |-> SelectSeq(calculate_distance_matrix(grid, places).rows,
                              LAMBDA r : r.cell_id < k)]
    /\ pc' = "dist"
    /\ UNCHANGED <<city, bounds, grid_size_km, places, grid,
                   walking_distance_km, accessibility, deserts, results,
                   map_deserts, dashboard_deserts, pop_raster, enriched,
                   input_df, files>>
    /\ UNCHANGED <<business_types, batch_idx, results_summary,
                   boundary_file, reprocess_error, grid_points,
                   boundary_polygon>>

\* Selecting the cell_id column of a table without columns raises KeyError.
AnalyzeAccessibility(w) ==
    /\ pc = "dist"
    /\ walking_distance_km' = w
    /\ IF distances.cols
       THEN /\ accessibility' = analyze_accessibility(grid, distances, w)
            /\ pc' = "access"
       ELSE /\ accessibility' = accessibility
            /\ pc' = "error"
    /\ UNCHANGED <<city, bounds, grid_size_km, places, grid, distances,
                   deserts, results, map_deserts, dashboard_deserts,
                   pop_raster, enriched,
                   input_df, files>>
    /\ UNCHANGED <<business_types, batch_idx, results_summary,
                   boundary_file, reprocess_error, grid_points,
                   boundary_polygon>>

IdentifyServiceDeserts ==
    /\ pc = "access"
    /\ deserts' = identify_service_deserts(accessibility, 150)
    /\ pc' = "deserts"
    /\ UNCHANGED <<city, bounds, grid_size_km, places, grid, distances,
                   walking_distance_km, accessibility, results, map_deserts,
                   dashboard_deserts, pop_raster, enriched,
                   input_df, files>>
    /\ UNCHANGED <<business_types, batch_idx, results_summary,
                   boundary_file, reprocess_error, grid_points,
                   boundary_polygon>>

CalculateOpportunityScores ==
    /\ pc = "deserts"
    /\ results' = calculate_opportunity_scores(accessibility)
    /\ pc' = "scored"
    /\ UNCHANGED <<city, bounds, grid_size_km, places, grid, distances,
                   walking_distance_km, accessibility, deserts, map_deserts,
                   dashboard_deserts, pop_raster, enriched,
                   input_df, files>>
    /\ UNCHANGED <<business_types, batch_idx, results_summary,
                   boundary_file, reprocess_error, grid_points,
                   boundary_polygon>>

\* save_analysis writes the scored table of the run.
SaveAnalysis ==
    /\ pc = "scored"
    /\ files' = save_analysis(files, results, city, BusinessType)
    /\ pc' = "saved"
    /\ UNCHANGED <<city, bounds, grid_size_km, places, grid, distances,
                   walking_distance_km, accessibility, deserts, results,
                   map_deserts, dashboard_deserts, pop_raster, enriched,
                   input_df>>
    /\ UNCHANGED <<business_types, batch_idx, results_summary,
                   boundary_file, reprocess_error, grid_points,
                   boundary_polygon>>

\* What add_population_to_analysis does once a raster file is found: it
\* enriches every file to process and writes each result under the enriched
\* name.  input_df is the table object of the file processed last, the argument
\* of recalculate_opportunity_with_population, whose columns that function
\* assigns; enriched is the table the function returns, the same object.
EnrichFiles(c, raster) ==
    /\ files' = add_population_files(files, c, raster)
    /\ IF files_to_enrich(files, c) = {}
       THEN UNCHANGED <<enriched, input_df>>
       ELSE \E last \in files_to_enrich(files, c) :
               /\ enriched' = files'[enriched_filepath(last)]
               /\ input_df' = enriched'

\* add_population_to_analysis(city): without a raster file it prints the
\* download instructions and returns.
AddPopulationToAnalysis(raster) ==
    /\ pc = "saved"
    /\ pop_raster' = raster
    /\ IF raster.found
       THEN /\ EnrichFiles(city, raster)
            /\ pc' = "enriched"
       ELSE /\ pc' = "paused"
            /\ UNCHANGED <<enriched, input_df, files>>
    /\ UNCHANGED <<city, bounds, grid_size_km, places, grid, distances,
                   walking_distance_km, accessibility, deserts, results,
                   map_deserts, dashboard_deserts>>
    /\ UNCHANGED <<business_types, batch_idx, results_summary,
                   boundary_file, reprocess_error, grid_points,
                   boundary_polygon>>

\* The table the map and the dashboard load: the latest analysis artifact.
analysis_df == IF pc = "enriched" THEN enriched ELSE results

\* visualize.py renders the desert layer of the map.
CreateOpportunityMap ==
    /\ pc \in {"saved", "enriched"}
    /\ map_deserts' = [of |-> pc, cells |-> visualize_deserts(analysis_df),
                       markers |-> <<>>]
    /\ pc' = "map"
    /\ UNCHANGED <<city, bounds, grid_size_km, places, grid, distances,
                   walking_distance_km, accessibility, deserts, results,
                   dashboard_deserts, pop_raster, enriched,
                   input_df, files>>
    /\ UNCHANGED <<business_types, batch_idx, results_summary,
                   boundary_file, reprocess_error, grid_points,
                   boundary_polygon>>

\* app_v1.py renders the desert layer and the per-cell desert marker.
Dashboard ==
    /\ pc \in {"saved", "enriched"}
    /\ dashboard_deserts' =
          [of |-> pc,
           cells |-> app_deserts(analysis_df),
           markers |-> [i \in 1..Len(analysis_df) |->
                           app_is_desert(analysis_df[i])]]
    /\ pc' = "dashboard"
    /\ UNCHANGED <<city, bounds, grid_size_km, places, grid, distances,
                   walking_distance_km, accessibility, deserts, results,
                   map_deserts, pop_raster, enriched,
                   input_df, files>>
    /\ UNCHANGED <<business_types, batch_idx, results_summary,
                   boundary_file, reprocess_error, grid_points,
                   boundary_polygon>>

Next ==
    \/ \E c \in Regions : RejectRegion(c)
    \/ \E c \in Regions, offs \in PlaceSeqs : LoadData(c, offs)
    \/ \E dlat \in LatSpans, dlng \in Spans, g \in GridSizes :
          CreateAnalysisGrid(dlat, dlng, g)
    \/ CalculateDistanceMatrix
    \/ \E k \in {0, 1} : GivenDistances(k)
    \/ \E w \in WalkingDistances : AnalyzeAccessibility(w)
    \/ IdentifyServiceDeserts
    \/ CalculateOpportunityScores
    \/ SaveAnalysis
    \/ \E raster \in Rasters(city) : AddPopulationToAnalysis(raster)
    \/ CreateOpportunityMap
    \/ Dashboard

Spec == Init /\ [][Next]_vars

----------------------------------------------------------------------------
(* Runs of the three programs over one data/processed directory *)

StoreCity == "equator"

\* Facility sets of the analysis runs: one facility 1.0 km or 4.0 km north
\* of the corner.
StorePlaceSeqs == {<<<<9010, 0>>>>, <<<<36037, 0>>>>}

\* What the boundary service answers in these runs: nothing, the
\* multi-polygon, or the polygon that lies elsewhere.
StoreAnswers ==
    BoundaryAnswers(StoreCity) \ {PolygonOf(Boundary(StoreCity))}

\* The number of "filtered" tokens of a name.
filtered_count(n) == Cardinality({q \in 1..Len(n) : n[q] = "filtered"})

\* analyze_city(city, business_type) from its first line to its last, for
\* a region of two rows and three columns of cells.
AnalyzeCity(offs) ==
    LET b == [south |-> CityCorner(StoreCity).south,
              north |-> CityCorner(StoreCity).south + 4600,
              west |-> CityCorner(StoreCity).west,
              east |-> CityCorner(StoreCity).west + 9200]
        g == create_analysis_grid(b, 50)
        d == calculate_distance_matrix(g, PlacesOf(StoreCity, offs))
        a == analyze_accessibility(g, d, 100)
    IN  /\ pc = "start"
        /\ configured(StoreCity)
        /\ city' = StoreCity
        /\ places' = PlacesOf(StoreCity, offs)
        /\ bounds' = b
        /\ grid_size_km' = 50
        /\ grid' = g
        /\ distances' = d
        /\ walking_distance_km' = 100
        /\ accessibility' = a
        /\ deserts' = identify_service_deserts(a, 150)
        /\ results' = calculate_opportunity_scores(a)
        /\ files' = save_analysis(files, results', StoreCity, BusinessType)
        /\ UNCHANGED <<pc, map_deserts, dashboard_deserts, pop_raster,
                       enriched, input_df>>
        /\ UNCHANGED <<business_types, batch_idx, results_summary,
                       boundary_file, reprocess_error, grid_points,
                       boundary_polygon>>

\* reprocess_all_analyses(city).  The file names grow by one token with
\* every run: runs are taken while no name to write exceeds MaxFiltered
\* "filtered" tokens.
\* boundary_file is the geometry of data/boundaries/{city}_boundary.geojson,
\* written by the first fetch that gets one; reprocess_error is the
\* exception the last run of the program ended with.
ReprocessAllAnalyses(answer) ==
    /\ pc = "start"
    /\ \A n \in glob_analysis(files, StoreCity) :
          filtered_count(n) < MaxFiltered
    /\ LET todo == glob_analysis(files, StoreCity)
           boundary_geom == load_city_boundary(boundary_file, answer)
       IN  IF todo = {}
           THEN /\ reprocess_error' = "none"
                /\ UNCHANGED <<files, boundary_file>>
           ELSE /\ boundary_file' = boundary_geom
                /\ \E run \in reprocess_outcomes(files, todo, boundary_geom) :
                      /\ files' = run.files
                      /\ reprocess_error' = run.raised
    /\ UNCHANGED <<pc, city, bounds, grid_size_km, places, grid, distances,
                   walking_distance_km, accessibility, deserts, results,
                   map_deserts, dashboard_deserts, pop_raster, enriched,
                   input_df>>
    /\ UNCHANGED <<business_types, batch_idx, results_summary, grid_points,
                   boundary_polygon>>

\* add_population_to_analysis(city) from its first line to its last.
AddPopulationRun(raster) ==
    /\ pc = "start"
    /\ pop_raster' = raster
    /\ IF raster.found
       THEN EnrichFiles(StoreCity, raster)
       ELSE UNCHANGED <<enriched, input_df, files>>
    /\ UNCHANGED <<pc, city, bounds, grid_size_km, places, grid, distances,
                   walking_distance_km, accessibility, deserts, results,
                   map_deserts, dashboard_deserts>>
    /\ UNCHANGED <<business_types, batch_idx, results_summary,
                   boundary_file, reprocess_error, grid_points,
                   boundary_polygon>>

StoreNext ==
    \/ \E offs \in StorePlaceSeqs : AnalyzeCity(offs)
    \/ \E answer \in StoreAnswers : ReprocessAllAnalyses(answer)
    \/ \E raster \in {NoRaster, RasterOf(StoreCity, 100)} :
          AddPopulationRun(raster)

StoreSpec == Init /\ [][StoreNext]_vars

----------------------------------------------------------------------------
(* Grids of given bounds, and the sample grid of collect_data.py *)

\* CITY_BOUNDS["milan"], micro-degrees.
MilanBounds ==
    [north |-> 45535000, south |-> 45395000, east |-> 9280000, west |-> 9065000]

\* Bounds with north > south and east > west: extents in quarters of the
\* latitude step of a 0.5 km grid above a corner, and the bounds of Milan.
GridSpans == {k * 1126 : k \in 1..MaxGridSpan}
GridBounds ==
    {[south |-> CityCorner(c).south, north |-> CityCorner(c).south + dlat,
      west |-> CityCorner(c).west, east |-> CityCorner(c).west + dlng] :
        c \in Cities, dlat \in GridSpans, dlng \in GridSpans}
    \cup {MilanBounds}

\* CITY_BOUNDS_APPROX[city]["bounds"]: here a region of two rows and three
\* columns of sample points at the equator.
ApproxBounds(c) ==
    [south |-> CityCorner(c).south, north |-> CityCorner(c).south + 4600,
     west |-> CityCorner(c).west, east |-> CityCorner(c).west + 9200]

RECURSIVE PointsLngLoop(_, _, _, _)
PointsLngLoop(b, lat, lng, lng_step) ==
    IF lng <= b.east
    THEN <<<<lat, lng>>>> \o PointsLngLoop(b, lat, lng + lng_step, lng_step)
    ELSE <<>>

RECURSIVE PointsLatLoop(_, _, _, _)
PointsLatLoop(b, lat, lat_step, lng_step) ==
    IF lat <= b.north
    THEN PointsLngLoop(b, lat, b.west, lng_step)
         \o PointsLatLoop(b, lat + lat_step, lat_step, lng_step)
    ELSE <<>>

\* create_grid of collect_data.py for a configured city, the grid size in
\* units of 10 m, and the polygon get_osm_boundary returned, if any.
create_grid(c, g, polygon) ==
    LET b == ApproxBounds(c)
        rectangular == PointsLatLoop(b, b.south, lat_step_of(g),
                                     lng_step_of(b, g))
    IN  IF polygon # NoGeometry
        THEN SelectSeq(rectangular,
                       LAMBDA p : polygon_contains(polygon.polys[1],
                                                   p[1], p[2]))
        ELSE rectangular

\* create_analysis_grid(bounds, grid_size_km) for given bounds.
GridForBounds(b, g) ==
    /\ pc = "start"
    /\ bounds' = b
    /\ grid_size_km' = g
    /\ grid' = create_analysis_grid(b, g)
    /\ pc' = "grid"
    /\ UNCHANGED <<city, places, distances, walking_distance_km,
                   accessibility, deserts, results, map_deserts,
                   dashboard_deserts, pop_raster, enriched, input_df, files>>
    /\ UNCHANGED <<business_types, batch_idx, results_summary,
                   boundary_file, reprocess_error, grid_points,
                   boundary_polygon>>

\* create_grid(city_name, grid_size_meters) with the answer the boundary
\* service gives.
CreateGrid(c, g, answer) ==
    /\ pc = "start"
    /\ configured(c)
    /\ city' = c
    /\ bounds' = ApproxBounds(c)
    /\ grid_size_km' = g
    /\ boundary_polygon' = get_osm_boundary(answer)
    /\ grid_points' = create_grid(c, g, boundary_polygon')
    /\ pc' = "grid_points"
    /\ UNCHANGED <<places, grid, distances, walking_distance_km,
                   accessibility, deserts, results, map_deserts,
                   dashboard_deserts, pop_raster, enriched, input_df, files>>
    /\ UNCHANGED <<business_types, batch_idx, results_summary,
                   boundary_file, reprocess_error>>

\* create_grid raises ValueError for a city that is not configured.
CreateGridRejects(c) ==
    /\ pc = "start"
    /\ ~configured(c)
    /\ city' = c
    /\ pc' = "value_error"
    /\ UNCHANGED <<bounds, grid_size_km, places, grid, distances,
                   walking_distance_km, accessibility, deserts, results,
                   map_deserts, dashboard_deserts, pop_raster, enriched,
                   input_df, files>>
    /\ UNCHANGED <<business_types, batch_idx, results_summary,
                   boundary_file, reprocess_error, grid_points,
                   boundary_polygon>>

GridNext ==
    \/ \E b \in GridBounds, g \in GridSizes : GridForBounds(b, g)
    \/ \E c \in Cities, g \in GridSizes :
          \E answer \in BoundaryAnswers(c) : CreateGrid(c, g, answer)
    \/ \E c \in Regions : CreateGridRejects(c)

GridSpec == Init /\ [][GridNext]_vars

----------------------------------------------------------------------------
(* The batch driver: analyze_all_business_types *)

\* The categories that data/raw can hold files of, and their order as
\* strings.
Categories == {"cafe", "gym", "pharmacy"}
Rank(t) == IF t = "cafe" THEN 1 ELSE IF t = "gym" THEN 2 ELSE 3

\* sorted(list(business_types))
sorted(S) ==
    CHOOSE s \in [1..Cardinality(S) -> S] :
        /\ \A t \in S : \E k \in 1..Cardinality(S) : s[k] = t
        /\ \A j, k \in 1..Cardinality(S) : j < k => Rank(s[j]) < Rank(s[k])

\* The facility file of a category: empty, or one facility 1.0 km or
\* 4.0 km north of the corner.
BatchPlaceSeqs == {<<>>} \cup StorePlaceSeqs

RECURSIVE sum_of(_, _)
sum_of(df, col) ==
    IF df = <<>> THEN RInt(0) ELSE RAdd(df[1][col], sum_of(Tail(df), col))

\* results['opportunity_score'].mean()
mean_of(df, col) == RDiv(sum_of(df, col), RInt(Len(df)))

\* The summary with no entry made for the category that failed.
record_error_dropped(summary, biz_type, e) == summary

\* except Exception as e: results_summary[biz_type] = {...}
record_error(summary, biz_type, e) ==
    [t \in DOMAIN summary \cup {biz_type} |->
        IF t = biz_type THEN [status |-> "error", error |-> e]
        ELSE summary[t]]

\* results_summary[biz_type] = {'status': 'success', ...}
record_success(summary, biz_type, locations, deserts_df, results_df) ==
    [t \in DOMAIN summary \cup {biz_type} |->
        IF t = biz_type
        THEN [status |-> "success",
              total_locations |-> Len(locations),
              service_deserts |-> Len(deserts_df),
              avg_opportunity_score |-> mean_of(results_df, "opportunity_score"),
              top_opportunity_score |-> max_of(results_df, "opportunity_score")]
        ELSE summary[t]]

\* get_available_business_types(city), for the set of categories that have
\* files of the city in data/raw; without any the driver returns {}.
GetAvailableBusinessTypes(c, types) ==
    /\ pc = "start"
    /\ city' = c
    /\ business_types' = sorted(types)
    /\ results_summary' = <<>>
    /\ IF types = {}
       THEN pc' = "batch_done" /\ batch_idx' = 0
       ELSE pc' = "batch" /\ batch_idx' = 1
    /\ UNCHANGED <<bounds, grid_size_km, places, grid, distances,
                   walking_distance_km, accessibility, deserts, results,
                   map_deserts, dashboard_deserts, pop_raster, enriched,
                   input_df, files>>
    /\ UNCHANGED <<boundary_file, reprocess_error, grid_points,
                   boundary_polygon>>

\* One turn of the loop: analyze_city(city, biz_type) from its first line
\* to its last, or to the exception it raises, for a region of two rows and
\* three columns of cells, and the entry made in the summary.
AnalyzeBusinessType(offs) ==
    /\ pc = "batch"
    /\ batch_idx <= Len(business_types)
    /\ LET biz_type == business_types[batch_idx]
           b == [south |-> CityCorner(city).south,
                 north |-> CityCorner(city).south + 4600,
                 west |-> CityCorner(city).west,
                 east |-> CityCorner(city).west + 9200]
           g == create_analysis_grid(b, 50)
           d == calculate_distance_matrix(g, PlacesOf(city, offs))
           a == analyze_accessibility(g, d, 100)
       IN  IF ~configured(city)
           THEN /\ results_summary' =
                      record_error(results_summary, biz_type, "ValueError")
                /\ UNCHANGED <<places, bounds, grid_size_km, grid, distances,
                               walking_distance_km, accessibility, deserts,
                               results, files>>
           ELSE /\ places' = PlacesOf(city, offs)
                /\ bounds' = b
                /\ grid_size_km' = 50
                /\ grid' = g
                /\ distances' = d
                /\ walking_distance_km' = 100
                /\ IF d.cols
                   THEN /\ accessibility' = a
                        /\ deserts' = identify_service_deserts(a, 150)
                        /\ results' = calculate_opportunity_scores(a)
                        /\ files' = save_analysis(files, results', city,
                                                  biz_type)
                        /\ results_summary' =
                              record_success(results_summary, biz_type,
                                             places', deserts', results')
                   ELSE /\ results_summary' =
                              record_error(results_summary, biz_type,
                                           "KeyError")
                        /\ UNCHANGED <<accessibility, deserts, results,
                                       files>>
    /\ batch_idx' = batch_idx + 1
    /\ UNCHANGED <<pc, city, business_types, map_deserts, dashboard_deserts,
                   pop_raster, enriched, input_df>>
    /\ UNCHANGED <<boundary_file, reprocess_error, grid_points,
                   boundary_polygon>>

\* After the loop the driver prints the status table and returns the
\* summary.
BatchSummary ==
    /\ pc = "batch"
    /\ batch_idx > Len(business_types)
    /\ pc' = "batch_done"
    /\ UNCHANGED <<city, bounds, grid_size_km, places, grid, distances,
                   walking_distance_km, accessibility, deserts, results,
                   map_deserts, dashboard_deserts, pop_raster, enriched,
                   input_df, files>>
    /\ UNCHANGED <<business_types, batch_idx, results_summary,
                   boundary_file, reprocess_error, grid_points,
                   boundary_polygon>>

BatchNext ==
    \/ \E c \in Regions, types \in SUBSET Categories :
          GetAvailableBusinessTypes(c, types)
    \/ \E offs \in BatchPlaceSeqs : AnalyzeBusinessType(offs)
    \/ BatchSummary

BatchSpec == Init /\ [][BatchNext]_vars

----------------------------------------------------------------------------
(* Properties *)

GridBuilt == pc \notin {"start", "value_error", "loaded"}
Analyzed ==
    pc \notin {"start", "value_error", "loaded", "grid", "dist", "error"}
Scored == pc \in {"scored", "saved", "paused", "enriched", "map", "dashboard"}
Enriched == enriched # <<>>

CellIds(df) == {df[i].cell_id : i \in 1..Len(df)}

\* C1: create_analysis_grid numbers the cells 0, 1, 2, ... without gaps or
\* repeats in row-major order, latitudes from south upward in the outer loop
\* and longitudes from west upward in the inner loop; the grid is therefore
\* the same function of the bounds and the spacing on every invocation.
GridRowMajorOrder ==
    GridBuilt =>
        LET lat_step == lat_step_of(grid_size_km)
            lng_step == lng_step_of(bounds, grid_size_km)
            nrows == (bounds.north - bounds.south) \div lat_step + 1
            ncols == (bounds.east - bounds.west) \div lng_step + 1
        IN  /\ Len(grid) = nrows * ncols
            /\ \A i \in 1..Len(grid) :
                  /\ grid[i].cell_id = i - 1
                  /\ grid[i].center_lat
                        = bounds.south + ((i - 1) \div ncols) * lat_step
                  /\ grid[i].center_lng
                        = bounds.west + ((i - 1) % ncols) * lng_step

\* A grid of at least two rows and two columns has been built.
GridRowMajorOrderWitness ==
    /\ pc = "grid"
    /\ Len(grid) >= 4
    /\ grid[2].center_lat = grid[1].center_lat
    /\ grid[2].center_lng > grid[1].center_lng
    /\ grid[Len(grid)].center_lat > grid[1].center_lat

\* The desert rule as the specification words it, on the stored fraction.
DesertRule(r) ==
    \/ 2 * r.nearest_distance_km[1] > 3 * r.nearest_distance_km[2]
    \/ r.services_within_walking < 2

DesertIds(df) == {df[i].cell_id : i \in {j \in 1..Len(df) : DesertRule(df[j])}}

\* C2: a cell is a service desert iff nearest_distance_km > 1.5 or
\* services_within_walking < 2 (both strict), in identify_service_deserts,
\* in the desert layer of the map and in the layer and the per-cell marker
\* of the dashboard.
DesertRuleEverywhere ==
    /\ (Analyzed /\ pc # "access") =>
          /\ CellIds(deserts) = DesertIds(accessibility)
          /\ \A i \in 1..Len(deserts) :
                \E j \in 1..Len(accessibility) : deserts[i] = accessibility[j]
    /\ pc = "map" => CellIds(map_deserts.cells) = DesertIds(accessibility)
    /\ pc = "dashboard" =>
          /\ CellIds(dashboard_deserts.cells) = DesertIds(accessibility)
          /\ \A i \in 1..Len(accessibility) :
                dashboard_deserts.markers[i] = DesertRule(accessibility[i])

\* A cell whose nearest facility is exactly 1.5 km away and which has exactly
\* two facilities within walking distance is left out of every desert layer.
DesertRuleEverywhereWitness ==
    /\ pc = "dashboard"
    /\ \E i \in 1..Len(accessibility) :
          /\ accessibility[i].nearest_distance_km = Rat(3, 2)
          /\ accessibility[i].services_within_walking = 2
          /\ accessibility[i].cell_id \notin CellIds(deserts)
          /\ accessibility[i].cell_id \notin CellIds(dashboard_deserts.cells)
          /\ ~dashboard_deserts.markers[i]

\* The two weighted sums, multiplied out by the factor 10.
SupplySum(r) ==
    RAdd(RAdd(RMul(RInt(4), r.competition_gap),
              RMul(RInt(4), r.accessibility_gap)),
         RMul(RInt(2), r.viability))

DemandSum(r) ==
    RAdd(RAdd(RAdd(RMul(RInt(3), r.competition_gap),
                   RMul(RInt(3), r.accessibility_gap)),
              RMul(RInt(3), r.demand_score)),
         r.viability)

\* C3: the supply-only score of every cell is
\* 10 x (0.40 competition_gap + 0.40 accessibility_gap + 0.20 viability), and
\* the demand-weighted score of every cell with population_1km >= 100 is
\* 10 x (0.30 competition_gap + 0.30 accessibility_gap + 0.30 demand_score
\* + 0.10 viability).
WeightedSums ==
    /\ Scored =>
          \A i \in 1..Len(results) :
              results[i].opportunity_score = SupplySum(results[i])
    /\ Enriched =>
          \A i \in 1..Len(enriched) :
              enriched[i].population_1km >= 100 =>
                  enriched[i].opportunity_score = DemandSum(enriched[i])

\* A populated cell has been re-scored, and its demand-weighted score differs
\* from its supply-only score.
WeightedSumsWitness ==
    /\ pc = "enriched"
    /\ \E i \in 1..Len(enriched) :
          /\ enriched[i].population_1km >= 100
          /\ RLt(RInt(0), enriched[i].demand_score)
          /\ RLt(RInt(0), enriched[i].competition_gap)
          /\ enriched[i].opportunity_score
                # enriched[i].opportunity_score_original

UnitInterval(x) == RLeq(RInt(0), x) /\ RLeq(x, RInt(1))
ScoreRange(x) == RLeq(RInt(0), x) /\ RLeq(x, RInt(10))

\* C4: under both policies every cell has 0 <= opportunity_score <= 10, and
\* competition_gap, accessibility_gap, viability and demand_score each lie
\* in [0, 1], also for cells whose nearest distance is +infinity.
ScoreBounds ==
    /\ Scored =>
          \A i \in 1..Len(results) :
              /\ ScoreRange(results[i].opportunity_score)
              /\ UnitInterval(results[i].competition_gap)
              /\ UnitInterval(results[i].accessibility_gap)
              /\ UnitInterval(results[i].viability)
    /\ Enriched =>
          \A i \in 1..Len(enriched) :
              /\ ScoreRange(enriched[i].opportunity_score)
              /\ ScoreRange(enriched[i].opportunity_score_original)
              /\ UnitInterval(enriched[i].competition_gap)
              /\ UnitInterval(enriched[i].accessibility_gap)
              /\ UnitInterval(enriched[i].viability)
              /\ UnitInterval(enriched[i].demand_score)

\* A re-scored set holding a cell without facilities (nearest +infinity),
\* scored 9 by the supply-only policy, and a saturated cell of viability 0.
ScoreBoundsWitness ==
    /\ pc = "enriched"
    /\ \E i, j \in 1..Len(enriched) :
          /\ IsInf(enriched[i].nearest_distance_km)
          /\ enriched[i].accessibility_gap = RInt(1)
          /\ enriched[i].opportunity_score_original = RInt(9)
          /\ enriched[j].viability = RInt(0)
          /\ enriched[j].demand_score = RInt(1)

\* C5: after demand-weighted re-scoring every cell with population_1km < 100
\* has opportunity_score exactly 0, whatever its supply-side sub-scores.
DemandFloor ==
    Enriched =>
        \A i \in 1..Len(enriched) :
            enriched[i].population_1km < 100 =>
                enriched[i].opportunity_score = RInt(0)

\* A cell with a positive population below 100 and positive supply-side
\* sub-scores has been re-scored to 0.
DemandFloorWitness ==
    /\ pc = "enriched"
    /\ \E i \in 1..Len(enriched) :
          /\ enriched[i].population_1km > 0
          /\ enriched[i].population_1km < 100
          /\ RLt(RInt(0), enriched[i].competition_gap)
          /\ RLt(RInt(0), enriched[i].accessibility_gap)
          /\ RLt(RInt(0), enriched[i].opportunity_score_original)
          /\ enriched[i].opportunity_score = RInt(0)

\* C6: in supply-only scoring competition_gap = 1 - density_per_km2 / M with
\* M the maximum density over the whole record set, and competition_gap = 1
\* for every cell when M = 0.
CompetitionGapGlobalMax ==
    Scored =>
        LET ds == {results[i].density_per_km2 : i \in 1..Len(results)}
            M == CHOOSE m \in ds : \A d \in ds : RLeq(d, m)
        IN  \A i \in 1..Len(results) :
                IF M[1] > 0
                THEN RMul(results[i].competition_gap, M)
                        = RSub(M, results[i].density_per_km2)
                ELSE results[i].competition_gap = RInt(1)

\* A scored set whose first cell is less dense than the densest cell: its
\* competition_gap lies strictly between 0 and 1, the densest cell's is 0.
CompetitionGapGlobalMaxWitness ==
    /\ pc = "scored"
    /\ \E j \in 1..Len(results) :
          /\ RLt(RInt(0), results[1].density_per_km2)
          /\ RLt(results[1].density_per_km2, results[j].density_per_km2)
          /\ RLt(RInt(0), results[1].competition_gap)
          /\ RLt(results[1].competition_gap, RInt(1))
          /\ results[j].competition_gap = RInt(0)

\* C7: viability is 1.0 for 1 <= s <= 3, 0.5 for s = 0 and
\* max(0, 1 - (s - 3)/10) for s > 3: 0.9 at s = 4 and 0 from s = 13 on.
ViabilityBranches ==
    Scored =>
        \A i \in 1..Len(results) :
            LET s == results[i].services_within_walking
                v == results[i].viability
            IN  /\ s = 0 => v = Rat(1, 2)
                /\ (1 <= s /\ s <= 3) => v = RInt(1)
                /\ s > 3 =>
                      RMul(RInt(10), v)
                         = RInt(IF 13 - s > 0 THEN 13 - s ELSE 0)
                /\ s = 4 => v = Rat(9, 10)
                /\ s >= 13 => v = RInt(0)

\* A scored set with a cell of thirteen services (viability 0) and a cell of
\* none (viability 0.5).
ViabilityBranchesWitness ==
    /\ pc = "scored"
    /\ \E i, j \in 1..Len(results) :
          /\ results[i].services_within_walking = 13
          /\ results[i].viability = RInt(0)
          /\ results[j].services_within_walking = 0
          /\ results[j].viability = Rat(1, 2)

\* The rows of the distance table that belong to the i-th cell of the grid.
RowsOf(i) ==
    {k \in 1..Len(distances.rows) :
        distances.rows[k].cell_id = grid[i].cell_id}

\* analyze_accessibility has been called on the grid and the distance table.
AnalyzerCalled == pc \notin {"start", "value_error", "loaded", "grid", "dist"}

\* C8: analyze_accessibility sets nearest_distance_km of every grid cell to
\* the minimum distance_km over the cell's distance records, and to
\* +infinity (not zero) when the cell has no distance records.
NearestIsMinimum ==
    AnalyzerCalled =>
        /\ Len(accessibility) = Len(grid)
        /\ \A i \in 1..Len(grid) :
              LET n == accessibility[i].nearest_distance_km
              IN  IF RowsOf(i) = {}
                  THEN n = Inf /\ n # RInt(0)
                  ELSE /\ \E k \in RowsOf(i) :
                              n = Rat(distances.rows[k].distance_km, 100)
                       /\ \A k \in RowsOf(i) :
                              RLeq(n, Rat(distances.rows[k].distance_km, 100))

\* C9: a cell with no associated facilities has nearest_distance_km
\* +infinity, services_within_walking 0 and density_per_km2 0, and under the
\* supply-only policy viability 0.5 and accessibility_gap 1.0.
NoFacilityCell ==
    /\ AnalyzerCalled =>
          /\ Len(accessibility) = Len(grid)
          /\ \A i \in 1..Len(grid) :
                RowsOf(i) = {} =>
                    /\ accessibility[i].nearest_distance_km = Inf
                    /\ accessibility[i].services_within_walking = 0
                    /\ accessibility[i].density_per_km2 = RInt(0)
    /\ Scored =>
          \A i \in 1..Len(results) :
              RowsOf(i) = {} =>
                  /\ results[i].cell_id = grid[i].cell_id
                  /\ results[i].viability = Rat(1, 2)
                  /\ results[i].accessibility_gap = RInt(1)

\* C10: density_per_km2 is the number of the cell's facilities within 1.0 km
\* divided by pi x 1.0^2 and is the same for every walking_distance_km, while
\* services_within_walking counts the facilities with
\* distance_km <= walking_distance_km.
DensityFixedRadius ==
    Analyzed =>
        \A i \in 1..Len(accessibility) :
            /\ accessibility[i].density_per_km2
                  = Rat(Cardinality({k \in RowsOf(i) :
                            distances.rows[k].distance_km <= 100}) * PiDen,
                        PiNum)
            /\ accessibility[i].services_within_walking
                  = Cardinality({k \in RowsOf(i) :
                        distances.rows[k].distance_km <= walking_distance_km})
            /\ \A w \in WalkingDistances :
                  analyze_accessibility(grid, distances, w)[i].density_per_km2
                     = accessibility[i].density_per_km2

\* Analyzed with a walking distance of 2.0 km: a cell with one facility at
\* exactly 1.0 km and one at 1.5 km counts two services and has density 1/pi.
DensityFixedRadiusWitness ==
    /\ pc = "access"
    /\ walking_distance_km = 200
    /\ \E i \in 1..Len(accessibility) :
          /\ accessibility[i].services_within_walking = 2
          /\ accessibility[i].density_per_km2 = Rat(PiDen, PiNum)
          /\ \E k \in RowsOf(i) : distances.rows[k].distance_km = 100
          /\ \E k \in RowsOf(i) : distances.rows[k].distance_km = 150

\* The records of the table d that pair the i-th cell with the j-th facility.
PairRows(d, i, j) ==
    {k \in 1..Len(d.rows) :
        /\ d.rows[k].cell_id = grid[i].cell_id
        /\ d.rows[k].place_id = places[j].place_id}

\* C11: calculate_distance_matrix emits exactly one distance record for
\* every (grid cell, facility) pair and no others: |cells| x |facilities|
\* records, every cell paired with the whole facility set, each record
\* holding the geodesic distance of its pair.
DistanceMatrixComplete ==
    [][CalculateDistanceMatrix =>
          /\ Len(distances'.rows) = Len(grid) * Len(places)
          /\ \A i \in 1..Len(grid), j \in 1..Len(places) :
                /\ Cardinality(PairRows(distances', i, j)) = 1
                /\ \A k \in PairRows(distances', i, j) :
                      distances'.rows[k].distance_km
                         = geodesic(<<grid[i].center_lat, grid[i].center_lng>>,
                                    <<places[j].lat, places[j].lng>>)]_vars

\* The full table of a grid of several cells and two facilities at
\* different places has been built.
DistanceMatrixCompleteWitness ==
    /\ pc = "dist"
    /\ Len(grid) >= 2
    /\ Len(places) = 2
    /\ places[1].lat # places[2].lat
    /\ Len(distances.rows) = Len(grid) * Len(places)
    /\ \A i \in 1..Len(grid), j \in 1..Len(places) :
          Cardinality(PairRows(distances, i, j)) = 1

\* The maximum of population_1km over the enriched set.
MaxPopulation1km ==
    LET ps == {enriched[i].population_1km : i \in 1..Len(enriched)}
    IN  CHOOSE m \in ps : \A p \in ps : p <= m

\* C12: after demand-weighted re-scoring demand_score is
\* population_1km / max(population_1km over the set), 0 for every cell when
\* that maximum is 0, and 0 for every cell with population_1km < 100.
DemandScoreNormalised ==
    Enriched =>
        \A i \in 1..Len(enriched) :
            LET p == enriched[i].population_1km
                ds == enriched[i].demand_score
            IN  IF p < 100 THEN ds = RInt(0)
                ELSE IF MaxPopulation1km > 0
                     THEN RMul(ds, RInt(MaxPopulation1km)) = RInt(p)
                     ELSE ds = RInt(0)

\* A re-scored set with a cell at the maximum (demand 1) and a cell of at
\* least 100 people below the maximum (demand strictly between 0 and 1).
DemandScoreNormalisedWitness ==
    /\ pc = "enriched"
    /\ \E i, j \in 1..Len(enriched) :
          /\ enriched[i].demand_score = RInt(1)
          /\ enriched[j].population_1km >= 100
          /\ enriched[j].population_1km < enriched[i].population_1km
          /\ RLt(RInt(0), enriched[j].demand_score)
          /\ RLt(enriched[j].demand_score, RInt(1))

\* C13: after recalculate_opportunity_with_population every cell's
\* opportunity_score_original is the opportunity_score the cell had before
\* the recomputation, also for cells whose new score is floored to 0.
OriginalScoreKept ==
    Enriched =>
        /\ Len(enriched) = Len(results)
        /\ \A i \in 1..Len(enriched) :
              /\ enriched[i].cell_id = results[i].cell_id
              /\ enriched[i].opportunity_score_original
                    = results[i].opportunity_score

\* A re-scored set with a floored cell (new score 0, original score kept
\* positive) and a cell whose new positive score differs from the original.
OriginalScoreKeptWitness ==
    /\ pc = "enriched"
    /\ \E i, j \in 1..Len(enriched) :
          /\ enriched[i].population_1km < 100
          /\ enriched[i].opportunity_score = RInt(0)
          /\ RLt(RInt(0), enriched[i].opportunity_score_original)
          /\ enriched[i].opportunity_score_original
                = results[i].opportunity_score
          /\ enriched[j].population_1km >= 100
          /\ RLt(RInt(0), enriched[j].opportunity_score)
          /\ enriched[j].opportunity_score
                # enriched[j].opportunity_score_original

\* The raster's coverage holds the centre of the cell.
InsideRaster(r) ==
    /\ r.center_lat <= pop_raster.north
    /\ pop_raster.north - r.center_lat < pop_raster.height * pop_raster.pixel
    /\ r.center_lng >= pop_raster.west
    /\ r.center_lng - pop_raster.west < pop_raster.width * pop_raster.pixel

\* The cells of the enriched set within 1 km of its i-th cell.
Within1km(i) ==
    {j \in 1..Len(enriched) :
        geodesic(<<enriched[i].center_lat, enriched[i].center_lng>>,
                 <<enriched[j].center_lat, enriched[j].center_lng>>) <= 100}

RECURSIVE SumPopulation(_)
SumPopulation(S) ==
    IF S = {} THEN 0
    ELSE LET j == CHOOSE k \in S : TRUE
         IN  enriched[j].population + SumPopulation(S \ {j})

\* C16: population_1km of every cell of the enriched set is the sum of the
\* point population of every cell of the set within 1 km of it, itself
\* included; the point population is 0 outside the raster and for a
\* negative no-data pixel, and the pixel value otherwise when the raster
\* opens; hence population_1km >= population >= 0.
PopulationWithin1km ==
    pc = "enriched" =>
        \A i \in 1..Len(enriched) :
            /\ (~InsideRaster(enriched[i]) \/ pop_raster.value < 0) =>
                  enriched[i].population = 0
            /\ (pop_raster.opens /\ InsideRaster(enriched[i])
                   /\ pop_raster.value >= 0) =>
                  enriched[i].population = pop_raster.value
            /\ i \in Within1km(i)
            /\ enriched[i].population_1km = SumPopulation(Within1km(i))
            /\ enriched[i].population_1km >= enriched[i].population
            /\ enriched[i].population >= 0

\* An enriched set where a populated cell sums itself and a populated
\* neighbour, a cell outside the raster has population 0, and a cell more
\* than 1 km from a populated cell leaves that cell out of its sum.
PopulationWithin1kmWitness ==
    /\ pc = "enriched"
    /\ \E i, j, k \in 1..Len(enriched) :
          /\ enriched[i].population > 0
          /\ enriched[i].population_1km > enriched[i].population
          /\ enriched[j].population = 0
          /\ enriched[j].center_lat > pop_raster.north
          /\ i \notin Within1km(k)
          /\ enriched[k].population_1km < enriched[i].population_1km

\* C14: demand-weighted re-scoring does not patch the record set it is
\* given: after recalculate_opportunity_with_population(df) the caller's
\* table still has the supply-only opportunity_score of every cell and
\* neither of the columns demand_score and opportunity_score_original.
InputFrameNotPatched ==
    pc = "enriched" =>
        /\ Len(input_df) = Len(results)
        /\ \A i \in 1..Len(input_df) :
              /\ input_df[i].opportunity_score = results[i].opportunity_score
              /\ "demand_score" \notin DOMAIN input_df[i]
              /\ "opportunity_score_original" \notin DOMAIN input_df[i]

\* C17: create_analysis_grid returns a grid only for bounds with
\* north > south and east > west; other bounds are rejected.
GridOnlyForProperBounds ==
    GridBuilt => (bounds.north > bounds.south /\ bounds.east > bounds.west)

\* C18: analyze_city called with a region that is not configured fails at
\* once: no facility data is loaded, no grid is built, no table is computed
\* and no artifact is written.
UnknownRegionFailsFirst ==
    (pc # "start" /\ city \notin Cities) =>
        /\ pc = "value_error"
        /\ places = <<>>
        /\ grid = <<>>
        /\ distances = NoFrame
        /\ accessibility = <<>>
        /\ results = <<>>
        /\ files = NoFiles

\* A run asked for the region atlantis has ended with the ValueError.
UnknownRegionFailsFirstWitness ==
    /\ pc = "value_error"
    /\ city = "atlantis"
    /\ places = <<>>
    /\ grid = <<>>
    /\ files = NoFiles

\* C19: when the population raster is absent or cannot be loaded the
\* enrichment stops and writes no enriched artifact; an enriched artifact
\* exists only for a raster that was found and opened.
NoArtifactWithoutRaster ==
    (\E n \in DOMAIN files : has_enriched(n)) =>
        (pop_raster.found /\ pop_raster.opens)

\* C20: with an empty facility set the distance-matrix and analyzer stages
\* run to completion and give one record per grid cell with
\* nearest_distance_km = +infinity and services_within_walking = 0, scored
\* with viability 0.5, and no error is raised.
EmptyFacilitySetAnalyzed ==
    (places = <<>> /\ AnalyzerCalled /\ ~distances.cols) =>
        /\ pc # "error"
        /\ Len(accessibility) = Len(grid)
        /\ \A i \in 1..Len(grid) :
              /\ accessibility[i].cell_id = grid[i].cell_id
              /\ accessibility[i].nearest_distance_km = Inf
              /\ accessibility[i].services_within_walking = 0
        /\ Scored =>
              \A i \in 1..Len(results) : results[i].viability = Rat(1, 2)

\* A table that has been re-scored with population data.
IsEnrichedTable(frame) ==
    \E i \in 1..Len(frame) : "demand_score" \in DOMAIN frame[i]

\* C15: in any sequence of analysis, boundary-reprocessing and
\* population-enrichment runs, an enrichment run writes the result for each
\* file it read under a different name, the source name with the enriched
\* suffix, and deletes or overwrites no artifact without that suffix: the
\* file it read is still there with the table it held.
EnrichmentKeepsSource ==
    [][(\E raster \in Rasters(StoreCity) : AddPopulationRun(raster)) =>
          /\ \A n \in DOMAIN files :
                /\ n \in DOMAIN files'
                /\ ~has_enriched(n) => files'[n] = files[n]
          /\ pop_raster'.found =>
                \A n \in files_to_enrich(files, StoreCity) :
                    /\ ~has_enriched(n)
                    /\ Append(n, "enriched") # n
                    /\ Append(n, "enriched") \in DOMAIN files'
                    /\ files[n] # <<>> =>
                          IsEnrichedTable(files'[Append(n, "enriched")])
                    /\ ~IsEnrichedTable(files'[n])]_vars

\* After analysis, reprocessing and enrichment runs the filtered analysis
\* and its enriched version are both in the store, as different tables.
EnrichmentKeepsSourceWitness ==
    \E n \in DOMAIN files :
        /\ filtered_count(n) = 1
        /\ ~has_enriched(n)
        /\ ~IsEnrichedTable(files[n])
        /\ Append(n, "enriched") \in DOMAIN files
        /\ IsEnrichedTable(files[Append(n, "enriched")])
        /\ pop_raster = RasterOf(StoreCity, 100)


\* The end-to-end run of one grid cell and one facility 0.1 km from the
\* cell centre, its distance table built by calculate_distance_matrix.
OneCellOneFacility ==
    /\ Len(grid) = 1
    /\ Len(places) = 1
    /\ distances.cols
    /\ Len(distances.rows) = 1
    /\ distances.rows[1].distance_km = 10

\* C26 as stated: in the run of one cell and one facility about 0.1 km away
\* the cell has services_within_walking = 1 and density 1/pi and is not
\* classified as a service desert.
OneCellRunNotDesert ==
    (pc = "deserts" /\ OneCellOneFacility) =>
        /\ accessibility[1].services_within_walking = 1
        /\ accessibility[1].density_per_km2 = Rat(PiDen, PiNum)
        /\ deserts = <<>>

\* C26: in the run of one cell and one facility about 0.1 km away the cell
\* has services_within_walking = 1, nearest distance 0.1 km and density
\* 1/pi, and it is classified as a service desert, because it has fewer
\* than 2 services within walking distance.
OneCellRunIsDesert ==
    (pc = "deserts" /\ OneCellOneFacility) =>
        /\ Len(accessibility) = 1
        /\ accessibility[1].services_within_walking = 1
        /\ accessibility[1].nearest_distance_km = Rat(10, 100)
        /\ accessibility[1].density_per_km2 = Rat(PiDen, PiNum)
        /\ deserts = accessibility

\* The one-cell run has classified its cell, with a walking distance of
\* 1.0 km and proper bounds.
OneCellRunIsDesertWitness ==
    /\ pc = "deserts"
    /\ OneCellOneFacility
    /\ walking_distance_km = 100
    /\ bounds.north > bounds.south
    /\ bounds.east > bounds.west
    /\ Len(deserts) = 1

\* C27 as stated: in the run of one cell and one facility about 0.1 km away
\* supply-only scoring gives competition_gap = 1.0, accessibility_gap =
\* nearest / 3.0 and the weighted sum with viability 1.0.
OneCellRunNoCompetition ==
    (pc = "scored" /\ OneCellOneFacility) =>
        /\ results[1].competition_gap = RInt(1)
        /\ results[1].accessibility_gap = RDiv(results[1].nearest_distance_km, RInt(3))
        /\ results[1].viability = RInt(1)
        /\ results[1].opportunity_score = SupplySum(results[1])

\* C27: in the run of one cell and one facility about 0.1 km away
\* supply-only scoring gives competition_gap = 0 (the cell's density is the
\* maximum density), accessibility_gap = nearest / 3.0 = 1/30, viability
\* 1.0, and the opportunity score is the weighted sum of the three,
\* 10 * (0.4 * 0 + 0.4 / 30 + 0.2 * 1) = 32/15.
OneCellRunScores ==
    (pc = "scored" /\ OneCellOneFacility) =>
        /\ Len(results) = 1
        /\ results[1].competition_gap = RInt(0)
        /\ results[1].accessibility_gap = RDiv(results[1].nearest_distance_km, RInt(3))
        /\ results[1].accessibility_gap = Rat(1, 30)
        /\ results[1].viability = RInt(1)
        /\ results[1].opportunity_score = SupplySum(results[1])
        /\ results[1].opportunity_score = Rat(32, 15)

\* The one-cell run has scored its cell.
OneCellRunScoresWitness ==
    /\ pc = "scored"
    /\ OneCellOneFacility
    /\ walking_distance_km = 100
    /\ Len(results) = 1
    /\ results[1].density_per_km2 = Rat(PiDen, PiNum)

\* C30: in every accessibility record services_within_walking = 0 exactly
\* when nearest_distance_km > walking_distance_km, a cell without distance
\* records having nearest distance +infinity; with the walking distance of
\* 1.0 km every such record is classified as a service desert and scored
\* with viability 0.5.
NoneWithinWalkingIffBeyond ==
    pc = "scored" =>
        \A i \in 1..Len(results) :
            /\ results[i].services_within_walking = 0
                  <=> RLt(Rat(walking_distance_km, 100),
                          results[i].nearest_distance_km)
            /\ results[i].nearest_distance_km = Inf =>
                  results[i].services_within_walking = 0
            /\ (walking_distance_km = 100
                   /\ results[i].services_within_walking = 0) =>
                  /\ results[i].cell_id \in CellIds(deserts)
                  /\ results[i].viability = Rat(1, 2)

\* A scored set, walking distance 1.0 km, with a cell whose nearest
\* facility is exactly 1.0 km away and counted, and a cell without distance
\* records, a desert with viability 0.5.
NoneWithinWalkingIffBeyondWitness ==
    /\ pc = "scored"
    /\ walking_distance_km = 100
    /\ \E i, k \in 1..Len(results) :
          /\ results[i].nearest_distance_km = Inf
          /\ results[i].services_within_walking = 0
          /\ results[i].viability = Rat(1, 2)
          /\ results[i].cell_id \in CellIds(deserts)
          /\ results[k].nearest_distance_km = RInt(1)
          /\ results[k].services_within_walking = 1


\* C28: boundary reprocessing is idempotent on the store: any number of
\* runs of reprocess_all_analyses, interleaved with analysis and enrichment
\* runs, leaves the artifact names that one run leaves; no name carries the
\* filtered suffix twice (..._analysis_filtered_filtered_...).
ReprocessNeverFiltersTwice ==
    \A n \in DOMAIN files : filtered_count(n) <= 1


\* The number of "enriched" tokens of a name.
enriched_count(n) == Cardinality({q \in 1..Len(n) : n[q] = "enriched"})

\* C29: in any sequence of analysis, reprocessing and enrichment runs the
\* demand-weighted re-scoring is never applied to an artifact that is
\* already enriched: no artifact name carries the enriched suffix twice, a
\* file without the suffix holds a table that was not re-scored, and in
\* every enriched artifact opportunity_score_original is the supply-only
\* score, the weighted sum of the row's three supply sub-scores.
NeverEnrichedTwice ==
    \A n \in DOMAIN files :
        /\ enriched_count(n) <= 1
        /\ enriched_count(n) = 0 => ~IsEnrichedTable(files[n])
        /\ enriched_count(n) = 1 =>
              \A i \in 1..Len(files[n]) :
                  /\ "opportunity_score_original" \in DOMAIN files[n][i]
                  /\ files[n][i].opportunity_score_original =
                        SupplySum(files[n][i])

\* A store where enrichment ran over the analysis and, after a
\* reprocessing run, over the filtered analysis: the enriched analysis, the
\* filtered analysis and its enriched version are all there, and the
\* demand-weighted score of some row differs from its original score.
NeverEnrichedTwiceWitness ==
    \E n \in DOMAIN files :
        /\ filtered_count(n) = 0
        /\ enriched_count(n) = 1
        /\ \E f \in DOMAIN files :
              /\ filtered_count(f) = 1
              /\ enriched_count(f) = 0
              /\ Append(f, "enriched") \in DOMAIN files
              /\ files[Append(f, "enriched")] =
                    add_population_to_analysis(files[f], pop_raster)
              /\ \E i \in 1..Len(files[f]) :
                    files[Append(f, "enriched")][i].opportunity_score
                       # files[f][i].opportunity_score


\* C22: when no boundary polygon is available (the boundary service fails
\* or returns nothing and no boundary file exists) boundary filtering is
\* skipped and the full cell set is kept, without a fatal error: a run of
\* reprocess_all_analyses in that situation ends without an exception and
\* every analysis keeps the table it had.
NoBoundaryKeepsFullSet ==
    [][(/\ boundary_file = NoGeometry
        /\ glob_analysis(files, StoreCity) # {}
        /\ ReprocessAllAnalyses(NoGeometry)) =>
          /\ reprocess_error' = "none"
          /\ \A n \in DOMAIN files :
                n \in DOMAIN files' /\ files'[n] = files[n]]_vars

\* C23: for a boundary that is a multi-polygon, boundary filtering keeps
\* only the points inside its largest-area member: every cell of every
\* filtered analysis lies inside that member, a cell inside a smaller
\* member only having been dropped.
OnlyLargestMemberKept ==
    boundary_file # NoGeometry =>
        \A n \in DOMAIN files :
            filtered_count(n) >= 1 =>
                \A i \in 1..Len(files[n]) :
                    polygon_contains(largest_member(boundary_file.polys),
                                     files[n][i].center_lat,
                                     files[n][i].center_lng)

\* C24: boundary filtering is idempotent and neither reorders nor
\* renumbers: for every analysis table S of the store and the boundary P,
\* filtering the filtered table again gives the filtered table, and the
\* filtered table is the rows of S with the cell_id values it keeps, in the
\* order of S.
FilterIdempotent ==
    boundary_file # NoGeometry =>
        \A n \in DOMAIN files :
            LET once == filter_analysis_to_city_boundary(files[n],
                                                         boundary_file)
                twice == filter_analysis_to_city_boundary(once.value,
                                                          boundary_file)
            IN  once.raised = "none" =>
                   /\ twice.raised = "none"
                   /\ twice.value = once.value
                   /\ once.value =
                         SelectSeq(files[n],
                                   LAMBDA r : r.cell_id \in CellIds(once.value))


CeilDiv(a, b) == (a + b - 1) \div b

\* C25 as stated: for bounds with north > south and east > west the
\* unfiltered grid has exactly ceil((north - south) / lat_step) *
\* ceil((east - west) / lng_step) cells.
GridCountCeiling ==
    (pc = "grid" /\ bounds.north > bounds.south /\ bounds.east > bounds.west) =>
        Len(grid) =
            CeilDiv(bounds.north - bounds.south, lat_step_of(grid_size_km))
            * CeilDiv(bounds.east - bounds.west,
                      lng_step_of(bounds, grid_size_km))

\* The range is a whole number of steps.
WholeSteps(range, step) == range % step = 0

\* C25: for bounds with north > south and east > west the unfiltered grid
\* has exactly (floor((north - south) / lat_step) + 1) *
\* (floor((east - west) / lng_step) + 1) cells, the loops being inclusive at
\* both ends; this is ceil(..) * ceil(..) when neither range is a whole
\* number of steps, as for the bounds of Milan with spacing 0.5 km, which
\* give 32 * 34 cells.
GridCountInclusive ==
    (pc = "grid" /\ bounds.north > bounds.south /\ bounds.east > bounds.west) =>
        LET lat_range == bounds.north - bounds.south
            lng_range == bounds.east - bounds.west
            lat_step == lat_step_of(grid_size_km)
            lng_step == lng_step_of(bounds, grid_size_km)
        IN  /\ Len(grid) = ((lat_range \div lat_step) + 1)
                           * ((lng_range \div lng_step) + 1)
            /\ (~WholeSteps(lat_range, lat_step)
                   /\ ~WholeSteps(lng_range, lng_step)) =>
                  Len(grid) = CeilDiv(lat_range, lat_step)
                              * CeilDiv(lng_range, lng_step)
            /\ (bounds = MilanBounds /\ grid_size_km = 50) =>
                  Len(grid) = 32 * 34

\* The grid of the bounds of Milan with spacing 0.5 km has been built.
GridCountInclusiveWitness ==
    /\ pc = "grid"
    /\ bounds = MilanBounds
    /\ grid_size_km = 50
    /\ Len(grid) = 1088


\* C21: the batch driver isolates the failures of single categories:
\* whichever analyses succeed or fail, the categories are attempted in
\* their sorted order, a failure does not stop the later ones, and the
\* summary has exactly one entry per category attempted, with status
\* success (the analysis artifact of the category was written) or error;
\* the returned summary has one entry for every category.
BatchIsolatesFailures ==
    pc \in {"batch", "batch_done"} =>
        /\ \A j, k \in 1..Len(business_types) :
              j < k => Rank(business_types[j]) < Rank(business_types[k])
        /\ DOMAIN results_summary =
              {business_types[k] : k \in 1..(batch_idx - 1)}
        /\ \A t \in DOMAIN results_summary :
              /\ results_summary[t].status \in {"success", "error"}
              /\ results_summary[t].status = "success"
                    <=> analysis_filename(city, t, Today) \in DOMAIN files
        /\ pc = "batch_done" =>
              DOMAIN results_summary =
                 {business_types[k] : k \in 1..Len(business_types)}

\* A batch of three categories has returned: the first failed, the second
\* succeeded after it, the third failed.
BatchIsolatesFailuresWitness ==
    /\ pc = "batch_done"
    /\ Len(business_types) = 3
    /\ results_summary[business_types[1]].status = "error"
    /\ results_summary[business_types[2]].status = "success"
    /\ results_summary[business_types[3]].status = "error"
    /\ city \in Cities

====
